---- MODULE Spec2Model ----
(***************************************************************************)
(* Model of whisper_feature_extractor.py: the ASVspoofWhisperDataset class *)
(* (load_metadata, __len__, __getitem__) and the module-level feature      *)
(* extraction loop over DataLoader(dataset, batch_size=32, shuffle=False). *)
(*                                                                         *)
(* Text is modelled as a sequence of chunks: a chunk is either one         *)
(* whitespace character or a whitespace-free run of characters, and the    *)
(* text is the concatenation of its chunks.  Tensors are modelled by their *)
(* shape and their rows.  The third-party collaborators (torchaudio.load,  *)
(* Resample, the Whisper front-end and encoder) are modelled by their      *)
(* input/output contract as the script uses it.                            *)
(***************************************************************************)
EXTENDS Integers, Sequences, FiniteSets, TLC

\* ------------------------------------------------------------------ bounds
MaxShort == 2        \* short protocol files have 0..MaxShort lines
MaxBatches == 2      \* long protocol files fill up to MaxBatches batches
MaxSamples == 3      \* samples per channel of a decoded audio file
MaxTarget == 2       \* target_length ranges over 1..MaxTarget
MaxChannels == 2     \* channels of a decoded audio file
NumMels == 2         \* frequency bins of the modelled front-end

\* ------------------------------------------------------- program constants
batch_size == 32

SampleRates == {8000, 16000}

Min(a, b) == IF a < b THEN a ELSE b

\* ---------------------------------------------------------- str.strip/split
IsSpace(c) == c \in {" ", "\t", "\n"}

RECURSIVE LStrip(_)
LStrip(s) == IF s # <<>> /\ IsSpace(Head(s)) THEN LStrip(Tail(s)) ELSE s

RECURSIVE RStrip(_)
RStrip(s) ==
    IF s # <<>> /\ IsSpace(s[Len(s)]) THEN RStrip(SubSeq(s, 1, Len(s) - 1)) ELSE s

\* line.strip()
strip(s) == RStrip(LStrip(s))

RECURSIVE SplitAcc(_, _, _, _)
SplitAcc(s, parts, cur, inWord) ==
    IF s = <<>>
    THEN IF inWord THEN Append(parts, cur) ELSE parts
    ELSE IF IsSpace(Head(s))
         THEN SplitAcc(Tail(s), IF inWord THEN Append(parts, cur) ELSE parts, "", FALSE)
         ELSE SplitAcc(Tail(s), parts, cur \o Head(s), TRUE)

\* str.split() without arguments: fields separated by runs of whitespace
split(s) == SplitAcc(s, <<>>, "", FALSE)

\* Python's 0-based parts[i]
At(seq, i) == seq[i + 1]

\* ------------------------------------------------------------ load_metadata
\* mutant: the label read from field[3]
LabelOfField3(parts) == IF At(parts, 3) = "bonafide" THEN 0 ELSE 1

\* label = 0 if parts[4] == 'bonafide' else 1
LabelOf(parts) == IF At(parts, 4) = "bonafide" THEN 0 ELSE 1

\* mutant: the file name read from field[0]
ParseLineField0(line) ==
    LET parts == split(strip(line)) IN
    IF Len(parts) < 2 \/ Len(parts) < 5
    THEN [err |-> "IndexError", entry |-> <<"", -1>>]
    ELSE [err |-> "none", entry |-> <<At(parts, 0), LabelOf(parts)>>]

\* one iteration of the for loop over f.readlines(); parts[1] and parts[4]
\* raise IndexError on a line with too few fields
ParseLine(line) ==
    LET parts == split(strip(line)) IN
    IF Len(parts) < 2 \/ Len(parts) < 5
    THEN [err |-> "IndexError", entry |-> <<"", -1>>]
    ELSE [err |-> "none", entry |-> <<At(parts, 1), LabelOf(parts)>>]

\* mutant: a malformed line is skipped
RECURSIVE LoadLinesSkip(_, _)
LoadLinesSkip(lines, data) ==
    IF lines = <<>>
    THEN [err |-> "none", data |-> data]
    ELSE LET p == ParseLine(Head(lines)) IN
         IF p.err # "none"
         THEN LoadLinesSkip(Tail(lines), data)
         ELSE LoadLinesSkip(Tail(lines), Append(data, p.entry))

RECURSIVE LoadLines(_, _)
LoadLines(lines, data) ==
    IF lines = <<>>
    THEN [err |-> "none", data |-> data]
    ELSE LET p == ParseLine(Head(lines)) IN
         IF p.err # "none"
         THEN [err |-> p.err, data |-> <<>>]
         ELSE LoadLines(Tail(lines), Append(data, p.entry))

\* open(protocol_path) raises FileNotFoundError when the file is missing
load_metadata(file) ==
    IF ~file.exists
    THEN [err |-> "FileNotFoundError", data |-> <<>>]
    ELSE LoadLines(file.lines, <<>>)

\* ------------------------------------------------------------------ tensors
\* A tensor is its shape and its rows; a 1-D tensor of n values has shape
\* <<n>> and a single row, a 2-D tensor of shape <<c, n>> has c rows.
NoTensor == [shape |-> <<>>, rows |-> <<>>]

\* tensor.size(-1)
SizeLast(t) == t.shape[Len(t.shape)]

\* tensor.squeeze(0): drops dimension 0 only when its size is 1
squeeze0(t) ==
    IF Len(t.shape) >= 1 /\ t.shape[1] = 1
    THEN [shape |-> Tail(t.shape), rows |-> t.rows]
    ELSE t

Zeros(n) == [i \in 1..n |-> 0]

\* F.pad(t, (left, right), mode='constant', value=0) on the last axis
Pad(t, left, right) ==
    [shape |-> [i \in 1..Len(t.shape) |->
                   IF i = Len(t.shape) THEN t.shape[i] + left + right ELSE t.shape[i]],
     rows  |-> [m \in 1..Len(t.rows) |-> Zeros(left) \o t.rows[m] \o Zeros(right)]]

\* t[:, :n] on a 2-D tensor
SliceCols(t, n) ==
    LET k == Min(n, t.shape[2]) IN
    [shape |-> <<t.shape[1], k>>,
     rows  |-> [m \in 1..Len(t.rows) |-> SubSeq(t.rows[m], 1, k)]]

\* mutant: the short case only, nothing is truncated
PadOnly(mel, target_length) ==
    IF SizeLast(mel) < target_length
    THEN Pad(mel, 0, target_length - SizeLast(mel))
    ELSE mel

\* mutant: the zeros are put on the left
PadLeft(mel, target_length) ==
    IF SizeLast(mel) < target_length
    THEN Pad(mel, target_length - SizeLast(mel), 0)
    ELSE SliceCols(mel, target_length)

\* lines 61-68: pad or truncate to target length
PadOrTruncate(mel, target_length) ==
    IF SizeLast(mel) < target_length
    THEN Pad(mel, 0, target_length - SizeLast(mel))
    ELSE SliceCols(mel, target_length)

\* ------------------------------------------------------ external front-ends
\* torchaudio.transforms.Resample(orig_freq, new_freq)(waveform): every
\* channel is resampled to ceil(n * new_freq / orig_freq) samples, which
\* preserves the duration; the sample values are taken from the nearest
\* earlier input sample.
ResampledLen(n, orig_freq, new_freq) == (n * new_freq + orig_freq - 1) \div orig_freq

Resample(orig_freq, new_freq, waveform) ==
    LET n == SizeLast(waveform)
        k == ResampledLen(n, orig_freq, new_freq)
    IN [shape |-> [i \in 1..Len(waveform.shape) |->
                      IF i = Len(waveform.shape) THEN k ELSE waveform.shape[i]],
        rows  |-> [c \in 1..Len(waveform.rows) |->
                      [i \in 1..k |->
                          waveform.rows[c][Min(n, ((i - 1) * orig_freq) \div new_freq + 1)]]]]

RECURSIVE Flatten(_)
Flatten(rows) == IF rows = <<>> THEN <<>> ELSE Head(rows) \o Flatten(Tail(rows))

\* whisper_processor.feature_extractor(...).input_features.squeeze(0): a
\* matrix of NumMels frequency bins by one frame per sample of the samples
\* it is given.
feature_extractor(samples) ==
    [shape |-> <<NumMels, Len(samples)>>,
     rows  |-> [m \in 1..NumMels |-> [t \in 1..Len(samples) |-> (samples[t] * m) % 3]]]

\* ------------------------------------------------------------- __getitem__
\* metadata[idx] with Python's index rule: -N..N-1 are valid
ValidIndex(metadata, idx) == -Len(metadata) <= idx /\ idx < Len(metadata)
PyIndex(metadata, idx) ==
    IF idx >= 0 THEN metadata[idx + 1] ELSE metadata[Len(metadata) + idx + 1]

\* os.path.join(self.audio_dir, filename + '.flac'), relative to audio_dir
AudioPath(filename) == filename \o ".flac"

NoCall ==
    [op |-> "none", err |-> "none", idx |-> 0, value |-> 0, label |-> -1,
     mel_features |-> NoTensor, sample_rate |-> 0, decoded |-> NoTensor,
     resampled |-> FALSE, fe_called |-> FALSE, mel_raw |-> NoTensor, fe_waveform |-> NoTensor,
     fe_sampling_rate |-> 0, fe_waveform_rate |-> 0]

\* mutant: the waveform is never resampled
NeverResample(sample_rate, sampling_rate) == FALSE

\* line 46: resample if needed
NeedsResample(sample_rate, sampling_rate) == sample_rate # sampling_rate

\* The whole body of __getitem__.  accept is the outcome of handing the
\* front-end a waveform that is not 1-D (the library either rejects it or
\* computes features over all its samples).
getitem(metadata, disk, sampling_rate, target_length, idx, accept) ==
    LET base == [NoCall EXCEPT !.op = "getitem", !.idx = idx] IN
    IF ~ValidIndex(metadata, idx)
    THEN [base EXCEPT !.err = "IndexError"]
    ELSE
    LET entry    == PyIndex(metadata, idx)
        filename == entry[1]
        label    == entry[2]
        file     == disk[AudioPath(filename)]
    IN
    IF ~file.exists
    THEN [base EXCEPT !.err = "AudioIOError"]
    ELSE
    LET sample_rate == file.sample_rate
        loaded      == file.waveform
        doResample  == NeedsResample(sample_rate, sampling_rate)
        waveform1   == IF doResample
                       THEN Resample(sample_rate, sampling_rate, loaded)
                       ELSE loaded
        rate1       == IF doResample THEN sampling_rate ELSE sample_rate
        waveform2   == squeeze0(waveform1)
        called      == [base EXCEPT !.sample_rate = sample_rate,
                                    !.decoded = loaded,
                                    !.resampled = doResample,
                                    !.fe_called = TRUE,
                                    !.fe_waveform = waveform2,
                                    !.fe_sampling_rate = sampling_rate,
                                    !.fe_waveform_rate = rate1]
    IN
    IF Len(waveform2.shape) # 1 /\ ~accept
    THEN [called EXCEPT !.err = "ValueError"]
    ELSE
    LET mel == feature_extractor(Flatten(waveform2.rows)) IN
    [called EXCEPT !.label = label,
                   !.mel_raw = mel,
                   !.mel_features = PadOrTruncate(mel, target_length)]

\* ------------------------------------------------------------------- inputs
Filenames == <<"LA_T_0001", "LA_T_0002">>
LabelFields == <<"bonafide", "spoof", "BONAFIDE">>

\* the chunks of a field: "bonafide" is written in two chunks
Chunks(field) == IF field = "bonafide" THEN <<"bona", "fide">> ELSE <<field>>

\* A well-formed protocol line for file fn with field[4] = lab.  Variant 0
\* is the plain five-field line; variant 1 has six fields, leading and
\* trailing whitespace, runs of mixed whitespace between fields and the
\* word bonafide in field[3].
GoodLine(fn, lab, variant) ==
    IF variant = 0
    THEN <<"LA_0001", " ", fn, " ", "-", " ", "-", " ">> \o Chunks(lab) \o <<"\n">>
    ELSE <<" ", "\t", "LA_0002", "\t", " ", fn, " ", "-", "\t">> \o Chunks("bonafide")
         \o <<" ", " ">> \o Chunks(lab) \o <<" ", "extra", " ", "\n">>

NumGood == Len(Filenames) * Len(LabelFields)
GoodAt(g) ==
    LET f == g % Len(Filenames)
        l == (g \div Len(Filenames)) % Len(LabelFields)
    IN GoodLine(Filenames[f + 1], LabelFields[l + 1], (f + l) % 2)

\* Malformed lines: blank, whitespace only, one field, two fields, four fields
BadLines ==
    << <<"\n">>,
       <<" ", "\t", "\n">>,
       <<"LA_0001", "\n">>,
       <<"LA_0001", " ", "LA_T_0001", "\n">>,
       <<"LA_0001", " ", "LA_T_0001", " ", "-", " ">> \o Chunks("bonafide") \o <<"\n">> >>

LinePool == {GoodAt(g) : g \in 0..NumGood - 1} \cup {BadLines[b] : b \in 1..Len(BadLines)}

RECURSIVE SeqsUpTo(_, _)
SeqsUpTo(S, n) ==
    IF n = 0 THEN {<<>>}
    ELSE LET shorter == SeqsUpTo(S, n - 1) IN
         shorter \cup {Append(q, x) : q \in {r \in shorter : Len(r) = n - 1}, x \in S}

MissingFile == [exists |-> FALSE, lines |-> <<>>]
TextFile(lines) == [exists |-> TRUE, lines |-> lines]

\* every protocol file of at most MaxShort lines of the pool, or no file
ShortFiles == {MissingFile} \cup {TextFile(q) : q \in SeqsUpTo(LinePool, MaxShort)}

\* long protocol files: n lines for one audio file with the label field
\* cycling, and optionally the line at position pos replaced by another
LongLengths == {b * batch_size + d : b \in 1..MaxBatches, d \in {-1, 0, 1}}
LongLines(n, f) ==
    [i \in 1..n |-> GoodLine(Filenames[f], LabelFields[((i - 1) % Len(LabelFields)) + 1], i % 2)]
Replacements(f) ==
    {GoodLine(Filenames[g], "spoof", 0) : g \in (1..Len(Filenames)) \ {f}}
    \cup {BadLines[1], BadLines[Len(BadLines)]}
PokeAt(n) == {1, batch_size, batch_size + 1, batch_size + 3, n} \cap (1..n)
LongFiles ==
    {TextFile(LongLines(n, f)) : n \in LongLengths, f \in 1..Len(Filenames)}
    \cup UNION {{TextFile([LongLines(n, f) EXCEPT ![pos] = r]) :
                    pos \in PokeAt(n), r \in Replacements(f)} :
                 n \in LongLengths, f \in 1..Len(Filenames)}

\* decoded audio: torchaudio.load gives a (channels, samples) tensor and the
\* file's native sample rate
RateAt(i) == IF i % 2 = 0 THEN 16000 ELSE 8000
AudioFile(rate, channels, n) ==
    [exists |-> TRUE, sample_rate |-> rate,
     waveform |-> [shape |-> <<channels, n>>,
                   rows  |-> [c \in 1..channels |-> [i \in 1..n |-> (i + c - 1) % 3]]]]
MissingAudio == [exists |-> FALSE, sample_rate |-> 0, waveform |-> NoTensor]

NumMono == 2 * (MaxSamples + 1)
NumAudio == NumMono * MaxChannels + 1
\* the mono files first, then the missing file, then the multi-channel files
AudioAt(a) ==
    IF a < NumMono THEN AudioFile(RateAt(a), 1, a \div 2)
    ELSE IF a = NumMono THEN MissingAudio
    ELSE LET b == a - NumMono - 1 IN
         AudioFile(RateAt(b), 2 + b \div NumMono, (b \div 2) % (MaxSamples + 1))

Paths == {AudioPath(Filenames[f]) : f \in 1..Len(Filenames)}
PathIndex(p) == CHOOSE f \in 1..Len(Filenames) : AudioPath(Filenames[f]) = p
\* the audio directories: consecutive audio files of the pool under the names
Disk(k) == [p \in Paths |-> AudioAt((k + PathIndex(p) - 1) % NumAudio)]
Disks == {Disk(k) : k \in 0..NumAudio - 1}
\* the directories the long protocol files are run against: (mono, mono),
\* (mono, missing), (missing, multi-channel), (multi-channel, mono)
LongDisks == {Disk(k) : k \in {0, NumMono - 1, NumMono, NumAudio - 1}}

\* -------------------------------------------------------------------- state
VARIABLES
    protocol,        \* the protocol file at protocol_path
    disk,            \* the audio directory: path -> audio file
    sampling_rate,   \* constructor argument / self.sampling_rate
    target_length,   \* constructor argument / self.target_length
    pc,              \* "start", "iter" (the loop is running), "done", "error"
    constructed,     \* the dataset object exists
    err,             \* the unhandled exception that ended the run, or "none"
    metadata,        \* self.metadata
    call,            \* the last __len__ / __getitem__ call and what it did
    sampler,         \* next dataset index the DataLoader fetches
    fetched,         \* samples fetched for the batch being assembled
    batch,           \* the loop variables (mel_features, labels) of the current batch
    batch_idx,       \* number of batches the loop body has handled
    encoder_calls,   \* number of whisper_model.encoder invocations
    processed        \* per handled batch, the dataset indices of its samples

vars == <<protocol, disk, sampling_rate, target_length, pc, constructed, err, metadata, call,
          sampler, fetched, batch, batch_idx, encoder_calls, processed>>

inputs == <<protocol, disk, sampling_rate, target_length>>
loopvars == <<sampler, fetched, batch, batch_idx, encoder_calls, processed>>

NoBatch == [mel_features |-> <<>>, labels |-> <<>>, src |-> <<>>]

InitState ==
    /\ pc = "start"
    /\ constructed = FALSE
    /\ err = "none"
    /\ metadata = <<>>
    /\ call = NoCall
    /\ sampler = 0
    /\ fetched = <<>>
    /\ batch = NoBatch
    /\ batch_idx = 0
    /\ encoder_calls = 0
    /\ processed = <<>>

InitShort ==
    /\ protocol \in ShortFiles
    /\ disk \in Disks
    /\ sampling_rate \in SampleRates
    /\ target_length \in 1..MaxTarget
    /\ InitState

InitLong ==
    /\ protocol \in LongFiles
    /\ disk \in LongDisks
    /\ sampling_rate = 16000
    /\ target_length = MaxTarget
    /\ InitState

Init == InitShort \/ InitLong

\* --------------------------------------------------------------- operations
\* ASVspoofWhisperDataset.__init__: load_metadata, then the two fields
Construct ==
    /\ pc = "start"
    /\ LET r == load_metadata(protocol) IN
       IF r.err # "none"
       THEN /\ pc' = "error"
            /\ err' = r.err
            /\ UNCHANGED <<metadata, constructed>>
       ELSE /\ pc' = "iter"
            /\ metadata' = r.data
            /\ constructed' = TRUE
            /\ UNCHANGED err
    /\ UNCHANGED <<inputs, call, loopvars>>

\* __len__
len(md) == Len(md)

\* the batch being assembled still lacks an index
FetchReady == sampler < len(metadata) /\ Len(fetched) < batch_size

\* the sampler is exhausted and no batch is pending
Exhausted == sampler = len(metadata) /\ fetched = <<>>

\* mutant: an entry whose audio cannot be loaded is skipped
FetchSkip ==
    /\ pc = "iter"
    /\ FetchReady
    /\ \E accept \in BOOLEAN :
         LET r == getitem(metadata, disk, sampling_rate, target_length, sampler, accept) IN
         /\ call' = r
         /\ IF r.err # "none"
            THEN /\ sampler' = sampler + 1
                 /\ UNCHANGED <<pc, err, fetched>>
            ELSE /\ fetched' = Append(fetched, [mel_features |-> r.mel_features,
                                                 label |-> r.label, idx |-> sampler])
                 /\ sampler' = sampler + 1
                 /\ UNCHANGED <<pc, err>>
    /\ UNCHANGED <<inputs, constructed, metadata, batch, batch_idx, encoder_calls, processed>>

\* the DataLoader fetches dataset[sampler] for the batch it is assembling
Fetch ==
    /\ pc = "iter"
    /\ FetchReady
    /\ \E accept \in BOOLEAN :
         LET r == getitem(metadata, disk, sampling_rate, target_length, sampler, accept) IN
         /\ call' = r
         /\ IF r.err # "none"
            THEN /\ pc' = "error"
                 /\ err' = r.err
                 /\ UNCHANGED <<sampler, fetched>>
            ELSE /\ fetched' = Append(fetched, [mel_features |-> r.mel_features,
                                                 label |-> r.label, idx |-> sampler])
                 /\ sampler' = sampler + 1
                 /\ UNCHANGED <<pc, err>>
    /\ UNCHANGED <<inputs, constructed, metadata, batch, batch_idx, encoder_calls, processed>>

\* default_collate stacks the features, which must have one shape, and the
\* labels; the encoder accepts features of the configured length only
Stackable(samples) ==
    \A i, j \in 1..Len(samples) : samples[i].mel_features.shape = samples[j].mel_features.shape
EncoderAccepts(mels) ==
    \A i \in 1..Len(mels) : SizeLast(mels[i]) = target_length

\* mutant: only full batches are yielded (drop_last)
BatchReadyFullOnly == Len(fetched) = batch_size

\* the batch sampler has a batch: batch_size indices, or the rest (drop_last
\* is off)
BatchReady == fetched # <<>> /\ (Len(fetched) = batch_size \/ sampler = len(metadata))

\* a batch is complete: collate it and run the loop body on it
ProcessBatch ==
    /\ pc = "iter"
    /\ BatchReady
    /\ LET mels == [i \in 1..Len(fetched) |-> fetched[i].mel_features]
           labs == [i \in 1..Len(fetched) |-> fetched[i].label]
           src  == [i \in 1..Len(fetched) |-> fetched[i].idx]
       IN IF ~Stackable(fetched)
          THEN /\ pc' = "error"
               /\ err' = "RuntimeError"
               /\ UNCHANGED <<batch, batch_idx, encoder_calls, processed>>
          ELSE /\ batch' = [mel_features |-> mels, labels |-> labs, src |-> src]
               /\ batch_idx' = batch_idx + 1
               /\ encoder_calls' = encoder_calls + 1
               /\ IF EncoderAccepts(mels)
                  THEN /\ processed' = Append(processed, src)
                       /\ UNCHANGED <<pc, err>>
                  ELSE /\ pc' = "error"
                       /\ err' = "ValueError"
                       /\ UNCHANGED processed
    /\ fetched' = <<>>
    /\ UNCHANGED <<inputs, constructed, metadata, call, sampler>>

\* the DataLoader is exhausted: "Feature extraction completed."
Finish ==
    /\ pc = "iter"
    /\ Exhausted
    /\ pc' = "done"
    /\ UNCHANGED <<inputs, constructed, err, metadata, call, loopvars>>

Next == Construct \/ Fetch \/ ProcessBatch \/ Finish

Spec == Init /\ [][Next]_vars

\* ------------------------------------------------- the class used by a client
\* a caller evaluates len(dataset)
LenCall ==
    /\ constructed
    /\ call' = [NoCall EXCEPT !.op = "len", !.value = len(metadata)]
    /\ UNCHANGED <<inputs, pc, constructed, err, metadata, loopvars>>

\* mutant: the entry read is removed from metadata
GetItemCallPop ==
    /\ constructed
    /\ \E idx \in -(Len(metadata) + 1)..Len(metadata), accept \in BOOLEAN :
         /\ call' = getitem(metadata, disk, sampling_rate, target_length, idx, accept)
         /\ metadata' = IF ValidIndex(metadata, idx) /\ idx >= 0
                         THEN SubSeq(metadata, 1, idx) \o SubSeq(metadata, idx + 2, Len(metadata))
                         ELSE metadata
    /\ UNCHANGED <<inputs, pc, constructed, err, loopvars>>

\* a caller evaluates dataset[idx]; an exception goes to the caller
GetItemCall ==
    /\ constructed
    /\ \E idx \in -(Len(metadata) + 1)..Len(metadata), accept \in BOOLEAN :
         call' = getitem(metadata, disk, sampling_rate, target_length, idx, accept)
    /\ UNCHANGED <<inputs, pc, constructed, err, metadata, loopvars>>

\* a long file for the client: one entry more than a batch
InitClientLong ==
    /\ protocol = TextFile(LongLines(batch_size + 1, 1))
    /\ disk = Disk(0)
    /\ sampling_rate = 16000
    /\ target_length = MaxTarget
    /\ InitState

InitClientShort ==
    /\ protocol \in ShortFiles
    /\ disk \in LongDisks
    /\ sampling_rate \in SampleRates
    /\ target_length = MaxTarget
    /\ InitState

InitApi == InitClientShort \/ InitClientLong

NextApi == Construct \/ LenCall \/ GetItemCall \/ Fetch \/ ProcessBatch \/ Finish

SpecApi == InitApi /\ [][NextApi]_vars

\* =================================================================== claims
\* The fields a pool line was written with, known from how the line was
\* built and not from parsing it.
GoodFields(fn, lab, variant) ==
    IF variant = 0
    THEN <<"LA_0001", fn, "-", "-", lab>>
    ELSE <<"LA_0002", fn, "-", "bonafide", lab, "extra">>

BadFields ==
    << <<>>, <<>>, <<"LA_0001">>, <<"LA_0001", "LA_T_0001">>,
       <<"LA_0001", "LA_T_0001", "-", "bonafide">> >>

LineTable ==
    {<<GoodLine(Filenames[f], LabelFields[l], v), GoodFields(Filenames[f], LabelFields[l], v)>> :
        f \in 1..Len(Filenames), l \in 1..Len(LabelFields), v \in {0, 1}}
    \cup {<<BadLines[b], BadFields[b]>> : b \in 1..Len(BadLines)}

WrittenFields(line) == (CHOOSE t \in LineTable : t[1] = line)[2]

WellFormed(line) == Len(WrittenFields(line)) >= 5
AllWellFormed == protocol.exists /\ \A i \in 1..Len(protocol.lines) : WellFormed(protocol.lines[i])

Returned == call.op = "getitem" /\ call.err = "none"
Frames == SizeLast(call.mel_raw)

\* C1: every feature matrix __getitem__ returns has exactly target_length
\* frames on its time axis (the tensor's last dimension and every row of it),
\* whatever number of frames the front-end produced.
C1_OutputLength ==
    /\ Returned =>
         /\ Len(call.mel_features.shape) = 2
         /\ SizeLast(call.mel_features) = target_length
         /\ \A m \in 1..Len(call.mel_features.rows) :
                Len(call.mel_features.rows[m]) = target_length
    /\ \A i \in 1..Len(fetched) :
         /\ SizeLast(fetched[i].mel_features) = target_length
         /\ \A m \in 1..Len(fetched[i].mel_features.rows) :
                Len(fetched[i].mel_features.rows[m]) = target_length

\* a returned item whose front-end output was longer than target_length
C1_Witness == Returned /\ Frames > target_length /\ Len(fetched) >= 1

\* C3: with F frames from the front-end, F < target_length keeps the F frames
\* at positions 1..F and zeros after them; F > target_length keeps the leading
\* target_length frames; F = target_length returns the input unchanged.
C3_PadTruncate ==
    Returned =>
      LET in  == call.mel_raw.rows
          out == call.mel_features.rows
          F   == Frames
      IN /\ Len(out) = Len(in)
         /\ F < target_length =>
              \A m \in 1..Len(in) :
                 /\ Len(out[m]) = target_length
                 /\ \A t \in 1..F : out[m][t] = in[m][t]
                 /\ \A t \in F + 1..target_length : out[m][t] = 0
         /\ F > target_length =>
              \A m \in 1..Len(in) :
                 /\ Len(out[m]) = target_length
                 /\ \A t \in 1..target_length : out[m][t] = in[m][t]
         /\ F = target_length => call.mel_features = call.mel_raw

\* a padded item whose frames are not all zero
C3_Witness ==
    /\ Returned
    /\ Frames >= 1 /\ Frames < target_length
    /\ \E m \in 1..NumMels : call.mel_raw.rows[m][1] # 0

\* C2: the label parsed from a line is 0 when field[4], as the line was
\* written, is exactly "bonafide" and 1 for any other value; every label held
\* in metadata is 0 or 1.
C2_Labels ==
    constructed =>
      /\ \A i \in 1..Len(protocol.lines) :
           /\ i <= Len(metadata)
           /\ metadata[i][2] =
                 (IF At(WrittenFields(protocol.lines[i]), 4) = "bonafide" THEN 0 ELSE 1)
      /\ \A i \in 1..Len(metadata) : metadata[i][2] \in {0, 1}

\* a bonafide line next to a line whose field[3] is bonafide and field[4] is not
C2_Witness ==
    /\ constructed
    /\ \E i, j \in 1..Len(metadata) :
         /\ metadata[i][2] = 0
         /\ metadata[j][2] = 1
         /\ At(WrittenFields(protocol.lines[j]), 3) = "bonafide"

\* C4: a protocol file whose lines all have at least 5 fields yields one
\* (filename, label) pair per line, in file order, with filename = field[1];
\* __len__ is the number of lines.
C4_OrderedEntries ==
    (pc # "start" /\ AllWellFormed) =>
      /\ constructed
      /\ Len(metadata) = Len(protocol.lines)
      /\ \A i \in 1..Len(metadata) :
            metadata[i][1] = At(WrittenFields(protocol.lines[i]), 1)
      /\ len(metadata) = Len(protocol.lines)
      /\ call.op = "len" => call.value = Len(protocol.lines)

\* __len__ was called on a dataset of two entries for different files
C4_Witness ==
    /\ call.op = "len"
    /\ Len(metadata) = 2
    /\ call.value = 2
    /\ metadata[1][1] # metadata[2][1]

\* C6: a missing protocol file, or any line with fewer than 5 fields, ends
\* construction with an error: no dataset, no metadata (also no partial one),
\* and the loop never starts.
C6_MalformedIsFatal ==
    (pc # "start" /\ ~AllWellFormed) =>
      /\ ~constructed
      /\ pc = "error"
      /\ err = (IF protocol.exists THEN "IndexError" ELSE "FileNotFoundError")
      /\ metadata = <<>>
      /\ sampler = 0 /\ fetched = <<>> /\ encoder_calls = 0 /\ call = NoCall

\* construction failed on a malformed second line after a well-formed first
C6_Witness ==
    /\ pc = "error"
    /\ protocol.exists
    /\ Len(protocol.lines) = 2
    /\ WellFormed(protocol.lines[1])
    /\ ~WellFormed(protocol.lines[2])

\* C8: the waveform is resampled exactly when the native rate differs from
\* sampling_rate; the waveform handed to the front-end is then at
\* sampling_rate (with the duration's number of samples), otherwise it holds
\* the decoded samples unchanged; the front-end is always told sampling_rate.
C8_ResampleIffDifferent ==
    call.fe_called =>
      /\ call.resampled <=> (call.sample_rate # sampling_rate)
      /\ call.fe_sampling_rate = sampling_rate
      /\ call.fe_waveform_rate = sampling_rate
      /\ call.sample_rate = sampling_rate => call.fe_waveform.rows = call.decoded.rows
      /\ call.sample_rate # sampling_rate =>
            SizeLast(call.fe_waveform) =
               ResampledLen(SizeLast(call.decoded), call.sample_rate, sampling_rate)

\* a non-empty waveform at another rate went to the front-end
C8_Witness ==
    /\ Returned
    /\ call.fe_called
    /\ call.resampled
    /\ SizeLast(call.decoded) >= 2
    /\ SizeLast(call.fe_waveform) # SizeLast(call.decoded)

\* C5: the waveform handed to the front-end is a single channel, the first
\* channel of the decoded (and possibly resampled) audio.
C5_SingleChannel ==
    call.fe_called =>
      /\ Len(call.fe_waveform.shape) = 1
      /\ Len(call.fe_waveform.rows) = 1
      /\ call.sample_rate = sampling_rate =>
            call.fe_waveform.rows[1] = call.decoded.rows[1]

\* C7: when the audio file of an entry is missing, __getitem__ raises and
\* the run ends there: the entry is not skipped or retried, and nothing after
\* it is fetched or processed.
EntryMissing(i) == ~disk[AudioPath(PyIndex(metadata, i)[1])].exists

C7_State ==
    /\ \A i \in 0..sampler - 1 : ~EntryMissing(i)
    /\ \A b \in 1..Len(processed) : \A k \in 1..Len(processed[b]) :
          processed[b][k] < sampler /\ ~EntryMissing(processed[b][k])
    /\ err = "AudioIOError" =>
          /\ pc = "error"
          /\ sampler < Len(metadata)
          /\ EntryMissing(sampler)
          /\ call.idx = sampler /\ call.err = "AudioIOError"
          /\ call.mel_features = NoTensor /\ ~call.fe_called
          /\ encoder_calls = sampler \div batch_size
          /\ Len(fetched) = sampler % batch_size
    /\ pc = "error" => ~ENABLED Next

C7_Step ==
    /\ (pc = "iter" /\ sampler < Len(metadata) /\ Len(fetched) < batch_size
          /\ EntryMissing(sampler))
         => (pc' = "error" /\ err' = "AudioIOError" /\ sampler' = sampler
               /\ fetched' = fetched /\ encoder_calls' = encoder_calls)
    /\ sampler' # sampler =>
         (sampler' = sampler + 1 /\ ~EntryMissing(sampler)
            /\ fetched' = Append(fetched, fetched'[Len(fetched')])
            /\ fetched'[Len(fetched')].idx = sampler)

\* C7 as one property: the state part in every reachable state, the step part
\* on every step (a missing audio file raises and ends the run)
C7_MissingAudioIsFatal == [](C7_State) /\ [][C7_Step]_vars

\* a missing file met in a later batch, with fetched entries pending and
\* entries left behind it
C7_Witness ==
    /\ err = "AudioIOError"
    /\ encoder_calls >= 1
    /\ fetched # <<>>
    /\ sampler + 1 < Len(metadata)

\* C9: once the dataset is constructed, metadata stays what load_metadata
\* returned, whatever calls (failing ones included) and batches follow, and
\* __len__ keeps returning its length.
C9_State ==
    constructed =>
      /\ metadata = load_metadata(protocol).data
      /\ call.op = "len" => call.value = Len(load_metadata(protocol).data)

C9_Step == constructed => (constructed' /\ metadata' = metadata)

\* C9 as one property: metadata equals what load_metadata returned in every
\* state and no step changes it
C9_MetadataImmutable == [](C9_State) /\ [][C9_Step]_vars

\* the loop has finished and a client call has just failed on a bad index
C9_Witness ==
    /\ constructed
    /\ pc = "done"
    /\ Len(metadata) >= 2
    /\ call.op = "getitem" /\ call.err = "IndexError" /\ call.idx < 0

\* C10: without an error the loop is one pass that ends: ceil(N / 32)
\* batches, one encoder call per batch, every entry once and in file order,
\* full batches except possibly the last, labels aligned with features.
RECURSIVE Concat(_)
Concat(ss) == IF ss = <<>> THEN <<>> ELSE Head(ss) \o Concat(Tail(ss))

FetchedIdx == [i \in 1..Len(fetched) |-> fetched[i].idx]

Progress == sampler + batch_idx + (IF pc = "start" THEN 0 ELSE 1)
               + (IF pc \in {"done", "error"} THEN 1 ELSE 0)

C10_State ==
    /\ pc \in {"start", "done", "error"} \/ FetchReady \/ BatchReady \/ Exhausted
    /\ pc \in {"iter", "done"} =>
         /\ Concat(processed) \o FetchedIdx = [i \in 1..sampler |-> i - 1]
         /\ encoder_calls = batch_idx /\ batch_idx = Len(processed)
         /\ \A b \in 1..Len(processed) :
               \/ Len(processed[b]) = batch_size
               \/ b = Len(processed) /\ sampler = Len(metadata)
                    /\ Len(processed[b]) \in 1..batch_size
         /\ batch_idx >= 1 =>
               /\ batch.src = processed[batch_idx]
               /\ Len(batch.labels) = Len(batch.src)
               /\ Len(batch.mel_features) = Len(batch.src)
               /\ \A i \in 1..Len(batch.src) :
                     /\ batch.labels[i] = PyIndex(metadata, batch.src[i])[2]
                     /\ \E accept \in BOOLEAN :
                           batch.mel_features[i] =
                              getitem(metadata, disk, sampling_rate, target_length,
                                      batch.src[i], accept).mel_features
    /\ pc = "done" =>
         /\ sampler = Len(metadata)
         /\ batch_idx = (Len(metadata) + batch_size - 1) \div batch_size
         /\ Concat(processed) = [i \in 1..Len(metadata) |-> i - 1]

C10_Step == Progress' > Progress /\ Progress' <= 2 * Len(metadata') + 3

\* C10 as one property: the batch bookkeeping in every state, and every step
\* makes bounded progress, so the pass ends
C10_LinearPass == [](C10_State) /\ [][C10_Step]_vars

\* the loop completed over a file that needs a short last batch
C10_Witness ==
    /\ pc = "done"
    /\ batch_idx = MaxBatches + 1
    /\ Len(processed[batch_idx]) = 1
    /\ Len(processed[1]) = batch_size
    /\ metadata[1][2] # metadata[2][2]

====
